---- MODULE Spec2Model ----
(***************************************************************************)
(* Model of napi-decimal's Decimal::new (src/src/lib.rs): the validator    *)
(* is_valid, the decomposer (signature, get_num_of_decimals) and the       *)
(* packer get_digits.                                                      *)
(*                                                                         *)
(* A string is a sequence of Unicode scalar values (code points); its      *)
(* bytes are its UTF-8 encoding, as in Rust's String.  A byte is a number  *)
(* in 0..255 and u8 arithmetic is modelled with its width.                 *)
(***************************************************************************)
EXTENDS Integers, Sequences, FiniteSets

VARIABLES number, pc, ret, decimal, fault

vars == <<number, pc, ret, decimal, fault>>

(***************************************************************************)
(* Bounds of the input space.                                              *)
(***************************************************************************)
\* Longest input string that is enumerated exhaustively.
MaxLen == 5

\* The characters of the enumerated inputs:
\*   '+' (43)  '-' (45)  '.' (46)  '0' (48)  '1' (49)  '9' (57)
\*   '/' (47, the ASCII character right below '0')
\*   U+00E9 (233, a character of two UTF-8 bytes)
Alphabet == {43, 45, 46, 48, 49, 57, 47, 233}

(***************************************************************************)
(* Character constants of the program.                                     *)
(***************************************************************************)
Plus == 43
Minus == 45
Point == 46
AsciiZero == 48

\* The strings the repository's tests pass to Decimal::new:
\* "", "text", "+.67", "-.566", ".566", "566.", "+x", "-y", "+67.566z",
\* "-99084d54.566", "0", "+1234.56789".
TestInputs ==
    { << >>,
      <<116, 101, 120, 116>>,
      <<43, 46, 54, 55>>,
      <<45, 46, 53, 54, 54>>,
      <<46, 53, 54, 54>>,
      <<53, 54, 54, 46>>,
      <<43, 120>>,
      <<45, 121>>,
      <<43, 54, 55, 46, 53, 54, 54, 122>>,
      <<45, 57, 57, 48, 56, 52, 100, 53, 52, 46, 53, 54, 54>>,
      <<48>>,
      <<43, 49, 50, 51, 52, 46, 53, 54, 55, 56, 57>> }

\* Further strings longer than MaxLen, with digits outside Alphabet:
\* "12.3.4", "1.2.3", "-99084.566", "-00.00", "+67.566", "123456".
LongInputs ==
    { <<49, 50, 46, 51, 46, 52>>,
      <<49, 46, 50, 46, 51>>,
      <<45, 57, 57, 48, 56, 52, 46, 53, 54, 54>>,
      <<45, 48, 48, 46, 48, 48>>,
      <<43, 54, 55, 46, 53, 54, 54>>,
      <<49, 50, 51, 52, 53, 54>> }

Inputs ==
    (UNION {[1..n -> Alphabet] : n \in 0..MaxLen}) \cup TestInputs \cup LongInputs

\* Overflow of u8 subtraction panics in a debug build and wraps in a release
\* build.
Profiles == {"debug", "release"}

(***************************************************************************)
(* Standard-library helpers used by the program.                           *)
(***************************************************************************)
is_ascii_digit(c) == c \in 48..57

\* char::len_utf8
Utf8Len(c) == IF c < 128 THEN 1 ELSE IF c < 2048 THEN 2 ELSE IF c < 65536 THEN 3 ELSE 4

\* The UTF-8 encoding of one character.
Utf8Char(c) ==
    IF c < 128 THEN <<c>>
    ELSE IF c < 2048 THEN <<192 + (c \div 64), 128 + (c % 64)>>
    ELSE IF c < 65536
         THEN <<224 + (c \div 4096), 128 + ((c \div 64) % 64), 128 + (c % 64)>>
         ELSE <<240 + (c \div 262144), 128 + ((c \div 4096) % 64),
                128 + ((c \div 64) % 64), 128 + (c % 64)>>

\* str::as_bytes: the UTF-8 bytes of a string.
RECURSIVE as_bytes(_)
as_bytes(s) ==
    IF s = << >> THEN << >> ELSE Utf8Char(Head(s)) \o as_bytes(Tail(s))

\* str::char_indices: the byte offset (0-based) of the k-th character (1-based).
RECURSIVE char_index(_, _)
char_index(s, k) ==
    IF k = 1 THEN 0 ELSE char_index(s, k - 1) + Utf8Len(s[k - 1])

\* str::chars().count()
chars_count(s) == Len(s)

\* str::replace(pat, ""), for a pattern of one character.
RECURSIVE replace(_, _)
replace(s, pat) ==
    IF s = << >> THEN << >>
    ELSE IF Head(s) = pat THEN replace(Tail(s), pat)
         ELSE <<Head(s)>> \o replace(Tail(s), pat)

\* str::split("."): the segments between the points, in order.
RECURSIVE split(_, _)
split(s, pat) ==
    IF \A k \in 1..Len(s) : s[k] # pat THEN <<s>>
    ELSE LET p == CHOOSE k \in 1..Len(s) :
                    s[k] = pat /\ \A j \in 1..(k - 1) : s[j] # pat
         IN <<SubSeq(s, 1, p - 1)>> \o split(SubSeq(s, p + 1, Len(s)), pat)

\* u8 bitwise or.
RECURSIVE BitOr(_, _, _)
BitOr(a, b, bits) ==
    IF bits = 0 THEN 0
    ELSE (IF a % 2 = 1 \/ b % 2 = 1 THEN 1 ELSE 0)
         + 2 * BitOr(a \div 2, b \div 2, bits - 1)

\* u8 shift left: the bits shifted out are dropped.
Shl8(a, n) == (a * (2 ^ n)) % 256

\* u8 subtraction as a release build computes it (wrapping).
Sub8(a, b) == (a - b + 256) % 256

(***************************************************************************)
(* The program.                                                            *)
(***************************************************************************)
\* enum Signature
Signatures == {"Positive", "Negative", "Zero"}

\* Decimal::is_valid without its rule for the second character (line 74).
is_valid_no_second(str) ==
    /\ chars_count(str) # 0
    /\ LET first_char == str[1]
       IN first_char = Plus \/ first_char = Minus \/ is_ascii_digit(first_char)
    /\ \A k \in 1..Len(str) :
          LET i == char_index(str, k)
              c == str[k]
          IN \/ i = 0
             \/ /\ ~(i = chars_count(str) - 1 /\ ~is_ascii_digit(c))
                /\ ~(c # Point /\ ~is_ascii_digit(c))

\* Decimal::is_valid without its character-class rule (line 82).
is_valid_no_class(str) ==
    /\ chars_count(str) # 0
    /\ LET first_char == str[1]
       IN first_char = Plus \/ first_char = Minus \/ is_ascii_digit(first_char)
    /\ \A k \in 1..Len(str) :
          LET i == char_index(str, k)
              c == str[k]
          IN \/ i = 0
             \/ /\ ~(i = 1 /\ ~is_ascii_digit(c))
                /\ ~(i = chars_count(str) - 1 /\ ~is_ascii_digit(c))

\* Decimal::is_valid.  The loop returns false at the first character that
\* breaks a rule, so the result is the conjunction over all characters.  The
\* index i of char_indices is a byte offset, the length is a character count.
is_valid(str) ==
    /\ chars_count(str) # 0
    /\ LET first_char == str[1]
       IN first_char = Plus \/ first_char = Minus \/ is_ascii_digit(first_char)
    /\ \A k \in 1..Len(str) :
          LET i == char_index(str, k)
              c == str[k]
          IN \/ i = 0
             \/ /\ ~(i = 1 /\ ~is_ascii_digit(c))
                /\ ~(i = chars_count(str) - 1 /\ ~is_ascii_digit(c))
                /\ ~(c # Point /\ ~is_ascii_digit(c))

\* The faults of Decimal::is_valid: chars().count() - 1 (line 78) underflows
\* usize when the count is 0 and the loop body reaches it.
is_valid_faults(str) ==
    IF \E k \in 1..Len(str) :
          /\ char_index(str, k) # 0
          /\ ~(char_index(str, k) = 1 /\ ~is_ascii_digit(str[k]))
          /\ chars_count(str) - 1 < 0
    THEN {"usize"}
    ELSE {}

\* Decimal::get_num_of_decimals taking the last segment instead of the second.
get_num_of_decimals_last(str) ==
    LET segments == split(str, Point)
    IN IF Len(segments) >= 2
       THEN chars_count(segments[Len(segments)])
       ELSE 0

\* Decimal::get_num_of_decimals: the length of the second segment of
\* split("."), or 0 when there is no second segment.  The cast to u32 leaves
\* a count below 2^32 unchanged, and every string here is far shorter.
get_num_of_decimals(str) ==
    LET segments == split(str, Point)
    IN IF Len(segments) >= 2
       THEN chars_count(segments[2])
       ELSE 0

\* Decimal::get_digits pushing the digit pairs from the front of the string
\* (index 2 * i + 1 instead of 2 * (number_of_bytes - i) - 1).
get_digits_forward(str) ==
    LET stripped == replace(replace(replace(str, Plus), Minus), Point)
        parsed_number ==
            IF chars_count(stripped) % 2 # 0
            THEN <<AsciiZero>> \o stripped
            ELSE stripped
        number_of_bytes == chars_count(parsed_number) \div 2
        bytes == as_bytes(parsed_number)
        index(i) == 2 * i + 1
        inside(j) == j \in 0..(Len(bytes) - 1)
        at(j) == IF inside(j) THEN bytes[j + 1] ELSE 0
        low_nibble(i) == Sub8(at(index(i)), AsciiZero)
        high_nibble(i) == Sub8(at(index(i) - 1), AsciiZero)
    IN [ digits |-> [n \in 1..number_of_bytes |->
                        BitOr(Shl8(high_nibble(n - 1), 4), low_nibble(n - 1), 8)],
         oob |-> \E i \in 0..(number_of_bytes - 1) :
                     ~inside(index(i)) \/ ~inside(index(i) - 1),
         underflow |-> \E i \in 0..(number_of_bytes - 1) :
                     at(index(i)) < AsciiZero \/ at(index(i) - 1) < AsciiZero ]

\* Decimal::get_digits with the index one too far
\* (2 * (number_of_bytes - i) instead of 2 * (number_of_bytes - i) - 1).
get_digits_off_by_one(str) ==
    LET stripped == replace(replace(replace(str, Plus), Minus), Point)
        parsed_number ==
            IF chars_count(stripped) % 2 # 0
            THEN <<AsciiZero>> \o stripped
            ELSE stripped
        number_of_bytes == chars_count(parsed_number) \div 2
        bytes == as_bytes(parsed_number)
        index(i) == 2 * (number_of_bytes - i)
        inside(j) == j \in 0..(Len(bytes) - 1)
        at(j) == IF inside(j) THEN bytes[j + 1] ELSE 0
        low_nibble(i) == Sub8(at(index(i)), AsciiZero)
        high_nibble(i) == Sub8(at(index(i) - 1), AsciiZero)
    IN [ digits |-> [n \in 1..number_of_bytes |->
                        BitOr(Shl8(high_nibble(n - 1), 4), low_nibble(n - 1), 8)],
         oob |-> \E i \in 0..(number_of_bytes - 1) :
                     ~inside(index(i)) \/ ~inside(index(i) - 1),
         underflow |-> \E i \in 0..(number_of_bytes - 1) :
                     at(index(i)) < AsciiZero \/ at(index(i) - 1) < AsciiZero ]

\* Decimal::get_digits.  digits is the vector the loop builds; oob says that
\* some byte access is out of bounds (a panic), underflow that some
\* subtraction of b'0' underflows (a panic in a debug build, a wrapped value
\* in a release build).
get_digits(str) ==
    LET stripped == replace(replace(replace(str, Plus), Minus), Point)
        parsed_number ==
            IF chars_count(stripped) % 2 # 0
            THEN <<AsciiZero>> \o stripped
            ELSE stripped
        number_of_bytes == chars_count(parsed_number) \div 2
        bytes == as_bytes(parsed_number)
        index(i) == 2 * (number_of_bytes - i) - 1
        inside(j) == j \in 0..(Len(bytes) - 1)
        at(j) == IF inside(j) THEN bytes[j + 1] ELSE 0
        low_nibble(i) == Sub8(at(index(i)), AsciiZero)
        high_nibble(i) == Sub8(at(index(i) - 1), AsciiZero)
    IN [ digits |-> [n \in 1..number_of_bytes |->
                        BitOr(Shl8(high_nibble(n - 1), 4), low_nibble(n - 1), 8)],
         oob |-> \E i \in 0..(number_of_bytes - 1) :
                     ~inside(index(i)) \/ ~inside(index(i) - 1),
         underflow |-> \E i \in 0..(number_of_bytes - 1) :
                     at(index(i)) < AsciiZero \/ at(index(i) - 1) < AsciiZero ]

\* The signature chosen by comparing the first character with '+' instead
\* of '-'.
signature_of_plus(first_char) ==
    IF first_char = Plus THEN "Positive" ELSE "Negative"

\* The signature Decimal::new gives to a number whose first character is
\* not '0'.
signature_of(first_char) ==
    IF first_char = Minus THEN "Negative" ELSE "Positive"

\* The value of the record variable when no record was returned.
NoDecimal == [num_of_decimals |-> 0, signature |-> "None", digits |-> << >>]

\* The zero path returning an empty byte vector.
ZeroDecimalEmpty == [num_of_decimals |-> 0, signature |-> "Zero", digits |-> << >>]

\* The record of the zero path.
ZeroDecimal == [num_of_decimals |-> 0, signature |-> "Zero", digits |-> <<0>>]

TypeOK ==
    /\ number \in Seq(Nat)
    /\ pc \in {"call", "done"}
    /\ ret \in {"pending", "None", "Some", "Panic"}
    /\ fault \subseteq {"usize", "unwrap", "oob", "underflow"}
    /\ decimal.signature \in Signatures \cup {"None"}
    /\ decimal.num_of_decimals \in Nat
    /\ decimal.digits \in Seq(0..255)

Init ==
    /\ number \in Inputs
    /\ pc = "call"
    /\ ret = "pending"
    /\ decimal = NoDecimal
    /\ fault = {}

\* Decimal::new on a string is_valid rejects: return None.
NewInvalid ==
    /\ pc = "call"
    /\ ~is_valid(number)
    /\ pc' = "done"
    /\ fault' = is_valid_faults(number)
    /\ ret' = IF fault' = {} THEN "None" ELSE "Panic"
    /\ decimal' = NoDecimal
    /\ UNCHANGED number

\* Decimal::new on an accepted string whose first character is '0': the
\* canonical zero record, without running the packer.
NewZero ==
    /\ pc = "call"
    /\ is_valid(number)
    /\ number # << >>
    /\ number[1] = AsciiZero
    /\ pc' = "done"
    /\ fault' = is_valid_faults(number)
    /\ ret' = IF fault' = {} THEN "Some" ELSE "Panic"
    /\ decimal' = IF fault' = {} THEN ZeroDecimal ELSE NoDecimal
    /\ UNCHANGED number

\* Decimal::new on an accepted string whose first character is not '0':
\* the decomposer and the packer run.  chars().next().unwrap() panics on an
\* empty string.  An out-of-bounds access panics; an underflow panics in a
\* debug build and wraps in a release build.
NewNonZero ==
    /\ pc = "call"
    /\ is_valid(number)
    /\ pc' = "done"
    /\ UNCHANGED number
    /\ IF number = << >>
       THEN /\ ret' = "Panic"
            /\ decimal' = NoDecimal
            /\ fault' = is_valid_faults(number) \cup {"unwrap"}
       ELSE /\ number[1] # AsciiZero
            /\ \E profile \in Profiles :
                 LET first_char == number[1]
                     num_of_decimals == get_num_of_decimals(number)
                     signature == signature_of(first_char)
                     packed == get_digits(number)
                     panics == \/ is_valid_faults(number) # {}
                               \/ packed.oob
                               \/ (packed.underflow /\ profile = "debug")
                 IN /\ fault' = is_valid_faults(number)
                                \cup (IF packed.oob THEN {"oob"} ELSE {})
                                \cup (IF packed.underflow THEN {"underflow"} ELSE {})
                    /\ ret' = IF panics THEN "Panic" ELSE "Some"
                    /\ decimal' = IF panics THEN NoDecimal
                                  ELSE [num_of_decimals |-> num_of_decimals,
                                        signature |-> signature,
                                        digits |-> packed.digits]

Next == NewInvalid \/ NewZero \/ NewNonZero

Spec == Init /\ [][Next]_vars

(***************************************************************************)
(* Vocabulary of the properties.                                           *)
(***************************************************************************)
Done == pc = "done"
Present == pc = "done" /\ ret = "Some"
Absent == pc = "done" /\ ret = "None"

LastChar == number[Len(number)]

\* The digit characters of the input, in order.
DigitChars == SelectSeq(number, is_ascii_digit)

\* The input with every '+', '-' and '.' removed.
IsDigitStringChar(c) == c \notin {Plus, Minus, Point}
DigitString == SelectSeq(number, IsDigitStringChar)

\* The digit string, left-padded with one '0' when its length is odd.
Padded ==
    IF Len(DigitString) % 2 = 1 THEN <<AsciiZero>> \o DigitString ELSE DigitString

PointPositions == {k \in 1..Len(number) : number[k] = Point}

\* The position of the first point, or Len(number) + 1 when there is none.
FirstPoint ==
    IF PointPositions = {} THEN Len(number) + 1
    ELSE CHOOSE k \in PointPositions : \A j \in PointPositions : k <= j

\* The position of the second point, or Len(number) + 1 when there is none.
SecondPoint ==
    LET later == {k \in PointPositions : k > FirstPoint}
    IN IF later = {} THEN Len(number) + 1
       ELSE CHOOSE k \in later : \A j \in later : k <= j

\* The grammar of the accepted strings: a first character that is '+', '-'
\* or a digit; then only digits and points, the second and the last
\* character (when there is one after the first) being digits.
Grammar ==
    /\ number # << >>
    /\ number[1] \in {Plus, Minus} \/ is_ascii_digit(number[1])
    /\ \A k \in 2..Len(number) : number[k] = Point \/ is_ascii_digit(number[k])
    /\ Len(number) >= 2 => is_ascii_digit(number[2]) /\ is_ascii_digit(LastChar)

(***************************************************************************)
(* C1.                                                                     *)
(***************************************************************************)
\* C1: whenever the last character of the input is not an ASCII digit,
\* Decimal::new returns None (a trailing point, a bare sign).
C1_LastNotDigitIsAbsent ==
    (Done /\ number # << >> /\ ~is_ascii_digit(LastChar)) => ret = "None"

(***************************************************************************)
(* C2.                                                                     *)
(***************************************************************************)
\* C2: every record Decimal::new returns has at least one byte in digits.
C2_DigitsNonEmpty ==
    Present => Len(decimal.digits) >= 1

(***************************************************************************)
(* C3.                                                                     *)
(***************************************************************************)
\* C3: an accepted input whose digit characters are all '0' (numeric value
\* zero) gets signature Zero, whatever its leading sign.
C3_ZeroValueHasZeroSign ==
    (/\ Present
     /\ DigitChars # << >>
     /\ \A k \in 1..Len(DigitChars) : DigitChars[k] = AsciiZero)
    => decimal.signature = "Zero"

(***************************************************************************)
(* C4.                                                                     *)
(***************************************************************************)
\* C4 as stated: every input beginning with '0' yields the present record
\* (Zero, 0, [0x00]), whatever follows the leading '0'.
C4_AnyZeroLeadingIsZeroRecord ==
    (Done /\ number # << >> /\ number[1] = AsciiZero)
    => /\ ret = "Some"
       /\ decimal = [num_of_decimals |-> 0, signature |-> "Zero", digits |-> <<0>>]

\* C4 amended: an input beginning with '0' yields the present record
\* (Zero, 0, [0x00]) exactly when it is in the grammar (only digits and
\* points after the '0', the second and the last character digits), whatever
\* digits follow; every other input beginning with '0' ("0.5" among them)
\* yields None.
C4_GrammarZeroLeadingIsZeroRecord ==
    (Done /\ number # << >> /\ number[1] = AsciiZero)
    => IF Grammar
       THEN /\ ret = "Some"
            /\ decimal = [num_of_decimals |-> 0, signature |-> "Zero",
                          digits |-> <<0>>]
       ELSE ret = "None" /\ decimal = NoDecimal

\* A zero-leading input with a non-zero digit and a point was turned into
\* the zero record.
C4_Witness ==
    /\ Present
    /\ number[1] = AsciiZero
    /\ \E k \in 2..Len(number) : number[k] \in 49..57
    /\ PointPositions # {}
    /\ decimal = [num_of_decimals |-> 0, signature |-> "Zero", digits |-> <<0>>]

(***************************************************************************)
(* C5.                                                                     *)
(***************************************************************************)
\* C5 as stated: for an accepted input not beginning with '0',
\* num_of_decimals is the number of digit characters after the first point,
\* and 0 when there is no point.
C5_DecimalsAreDigitsAfterFirstPoint ==
    (Present /\ number[1] # AsciiZero)
    => decimal.num_of_decimals =
          Cardinality({k \in (FirstPoint + 1)..Len(number) :
                          is_ascii_digit(number[k])})

\* C5 amended: for an accepted input not beginning with '0', num_of_decimals
\* is the number of digit characters between the first point and the second
\* point (the end of the input when there is only one point), and 0 when
\* there is no point.
C5_DecimalsAreDigitsUpToSecondPoint ==
    (Present /\ number[1] # AsciiZero)
    => decimal.num_of_decimals =
          Cardinality({k \in (FirstPoint + 1)..(SecondPoint - 1) :
                          is_ascii_digit(number[k])})

\* An input with two points and a digit between them was decomposed.
C5_Witness ==
    /\ Present
    /\ number[1] # AsciiZero
    /\ Cardinality(PointPositions) = 2
    /\ SecondPoint > FirstPoint + 1
    /\ decimal.num_of_decimals = SecondPoint - FirstPoint - 1

(***************************************************************************)
(* C6.                                                                     *)
(***************************************************************************)
\* C6: for an accepted input not beginning with '0', with k digits, digits
\* has N = ceil(k / 2) bytes, and byte i (from 0) has the padded digit at
\* offset 2 * (N - i) - 2 in its high nibble and the one at offset
\* 2 * (N - i) - 1 in its low nibble (sequences are 1-based, hence the + 1).
C6_PackedLeastSignificantPairFirst ==
    (Present /\ number[1] # AsciiZero)
    => LET k == Len(DigitString)
           N == (k + 1) \div 2
       IN /\ Len(decimal.digits) = N
          /\ \A i \in 0..(N - 1) :
                /\ decimal.digits[i + 1] \div 16
                      = Padded[2 * (N - i) - 2 + 1] - AsciiZero
                /\ decimal.digits[i + 1] % 16
                      = Padded[2 * (N - i) - 1 + 1] - AsciiZero

\* "+1234.56789" was packed into [0x89, 0x67, 0x45, 0x23, 0x01].
C6_Witness ==
    /\ Present
    /\ number = <<43, 49, 50, 51, 52, 46, 53, 54, 55, 56, 57>>
    /\ decimal.digits = <<137, 103, 69, 35, 1>>

(***************************************************************************)
(* C7.                                                                     *)
(***************************************************************************)
\* C7: Decimal::new returns None, and no record, for an input that is empty,
\* or whose first character is not '+', '-' or a digit, or whose second
\* character is not a digit, or that has a character after the first that
\* is neither a digit nor '.'.
C7_MalformedIsAbsent ==
    (/\ Done
     /\ \/ number = << >>
        \/ ~(number[1] \in {Plus, Minus} \/ is_ascii_digit(number[1]))
        \/ (Len(number) >= 2 /\ ~is_ascii_digit(number[2]))
        \/ \E k \in 2..Len(number) :
              number[k] # Point /\ ~is_ascii_digit(number[k]))
    => ret = "None" /\ decimal = NoDecimal

\* A digit, a point, a digit ("1.9", of the shape of "1.5") was rejected.
C7_Witness ==
    /\ Absent
    /\ Len(number) = 3
    /\ number[1] \in 49..57
    /\ number[2] = Point
    /\ is_ascii_digit(number[3])

(***************************************************************************)
(* C8.                                                                     *)
(***************************************************************************)
\* C8: for an accepted input not beginning with '0', the signature is
\* Negative exactly when the first character is '-', and Positive otherwise;
\* it is never Zero.
C8_SignFollowsFirstChar ==
    (Present /\ number[1] # AsciiZero)
    => /\ (decimal.signature = "Negative") <=> (number[1] = Minus)
       /\ (number[1] # Minus) => decimal.signature = "Positive"
       /\ decimal.signature # "Zero"

\* A '-' followed only by zeros and points ("-0", "-00.00") was given the
\* signature Negative, not Zero.
C8_Witness ==
    /\ Present
    /\ number[1] = Minus
    /\ \A k \in 1..Len(DigitChars) : DigitChars[k] = AsciiZero
    /\ decimal.signature = "Negative"

(***************************************************************************)
(* C9.                                                                     *)
(***************************************************************************)
\* C9: in every record Decimal::new returns, both nibbles of every byte of
\* digits are in 0..9.
C9_NibblesAreDecimal ==
    Present =>
        \A n \in 1..Len(decimal.digits) :
            /\ decimal.digits[n] \div 16 \in 0..9
            /\ decimal.digits[n] % 16 \in 0..9

\* An input with a sign and a point was packed into several bytes, one of
\* them with a nibble of 9.
C9_Witness ==
    /\ Present
    /\ number[1] \in {Plus, Minus}
    /\ PointPositions # {}
    /\ Len(decimal.digits) >= 2
    /\ \E n \in 1..Len(decimal.digits) : decimal.digits[n] % 16 = 9

(***************************************************************************)
(* C10.                                                                    *)
(***************************************************************************)
\* C10: on every input Decimal::new returns None or a record and never
\* faults: no usize underflow in the validator, no unwrap of None, no byte
\* access out of bounds and no u8 underflow in the packer.
C10_NoFault ==
    Done => ret \in {"None", "Some"} /\ fault = {}

\* The packer ran on an odd number of digits (the padded case) and on
\* several bytes, without a fault.
C10_Witness ==
    /\ Present
    /\ number[1] # AsciiZero
    /\ Len(DigitString) % 2 = 1
    /\ Len(decimal.digits) >= 3
    /\ fault = {}

====
